---- MODULE Spec2Model ----
(***************************************************************************)
(* A model of src/app.py, the Streamlit script of the Advanced CSV Analyst.*)
(*                                                                         *)
(* Streamlit runs the whole script once per user interaction.  The state   *)
(* that survives a run is st.session_state (messages, dataframe) and the   *)
(* state of the file_uploader widget.  One action models one interaction   *)
(* and the script run it triggers; the run that handles a chat question is *)
(* cut in two at the blocking call to the hosted model (Ask, Respond), so  *)
(* that the state "a reply is awaited" is a state of the model.            *)
(*                                                                         *)
(* Python values carry their type in a "type" field.  Text is a sequence   *)
(* of tokens, so that + on strings is \o and str.replace, str.strip and    *)
(* "\n".join are computed, not assumed.                                    *)
(*                                                                         *)
(* Generated code is modelled by what it does to its local scope (binds    *)
(* 'fig' or not) and by whether it raises an Exception; code that reaches  *)
(* out of its scope through `st` or globals(), or that leaves the run with *)
(* something that is no Exception (SystemExit, st.stop), is not modelled.  *)
(***************************************************************************)
EXTENDS Integers, Sequences, FiniteSets, TLC

\* Bound of the model: the longest transcript explored.
MaxMsgs == 4

-----------------------------------------------------------------------------
(* Python values *)

None == [type |-> "NoneType"]

Str(s) == [type |-> "str", val |-> s]

Dict(d) == [type |-> "dict", val |-> d]

List(l) == [type |-> "list", val |-> l]

Figure == [type |-> "Figure"]

\* Python truthiness, as `if response_data:` and `if python_code:` use it.
Truthy(v) ==
    CASE v.type = "NoneType" -> FALSE
      [] v.type = "str"      -> v.val # <<>>
      [] v.type = "list"     -> v.val # <<>>
      [] v.type = "dict"     -> DOMAIN v.val # {}
      [] OTHER               -> TRUE

\* dict.get(key, default)
dict_get(d, key, default) ==
    IF key \in DOMAIN d.val THEN d.val[key] ELSE default

\* str(v), as an f-string formats a value
py_str(v) ==
    CASE v.type = "str"      -> v.val
      [] v.type = "NoneType" -> <<"None">>
      [] OTHER               -> <<v.type>>

DEFAULT_ANSWER == <<"I couldn't find a text answer.">>

ERROR_NOTE == <<"\n\n_Note: I tried to generate a chart but encountered an error._">>

-----------------------------------------------------------------------------
(* The uploaded file and pandas.read_csv *)

\* A CSV file is its rows, each row its cells; the first row is the header.
SALES_CSV == << <<"Sales", "Region">>, <<"10", "N">>, <<"20", "S">> >>

QTY_CSV == << <<"Qty">>, <<"1">> >>

\* An empty file: read_csv raises EmptyDataError.
EMPTY_CSV == << >>

Files == {SALES_CSV, QTY_CSV, EMPTY_CSV}

UploadedFile(f) == [type |-> "UploadedFile", rows |-> f]

\* pd.read_csv(uploaded_file): the parsed DataFrame, or the exception.
read_csv(file) ==
    IF file.rows = << >>
    THEN [ok |-> FALSE, df |-> None]
    ELSE [ok |-> TRUE,
          df |-> [type    |-> "DataFrame",
                  columns |-> Head(file.rows),
                  rows    |-> Tail(file.rows)]]

-----------------------------------------------------------------------------
(* The model's reply and get_gemini_response *)

\* Tokens of a reply text: the two fence markers (three backticks followed
\* by json, three backticks), whitespace, prose, and the text of a JSON value.
FENCE_JSON == [t |-> "fence_json", v |-> None]

FENCE == [t |-> "fence", v |-> None]

WS == [t |-> "whitespace", v |-> None]

\* Text that is no JSON.
PROSE == [t |-> "prose", v |-> None]

\* The text of one JSON value; v is what json.loads returns for it.
Json(v) == [t |-> "json", v |-> v]

\* Generated code, by what exec does with it.
CODE_FIG == Str(<<"fig = px.bar(df)">>)

CODE_NO_FIG == Str(<<"px.bar(df).show()">>)

CODE_RAISE == Str(<<"raise ValueError()">>)

CODE_FIG_THEN_RAISE == Str(<<"fig = px.bar(df); raise ValueError()">>)

BindsFig(python_code) == python_code \in {CODE_FIG, CODE_FIG_THEN_RAISE}

Raises(python_code) == python_code \in {CODE_RAISE, CODE_FIG_THEN_RAISE}

\* The values a reply may give its "answer" key: a string, or null.
AnswerValues == {Str(<<"a1">>), None}

\* The values a reply may give its "python_code" key: null, "", or code.
CodeValues == {None, Str(<< >>), CODE_FIG, CODE_NO_FIG, CODE_RAISE, CODE_FIG_THEN_RAISE}

\* JSON objects over the two keys of the output contract, each key present
\* or not; {} is the one with neither.
ReplyObjects ==
    { Dict(d) : d \in UNION { [K -> AnswerValues \cup CodeValues] :
                              K \in SUBSET {"answer", "python_code"} } }

WellKeyed(o) ==
    /\ "answer" \in DOMAIN o.val => o.val["answer"] \in AnswerValues
    /\ "python_code" \in DOMAIN o.val => o.val["python_code"] \in CodeValues

\* What json.loads may return: the objects above, a list, null.
JsonValues == { o \in ReplyObjects : WellKeyed(o) } \cup {List(<<"1">>), None}

Fenced(tok) == <<FENCE_JSON, WS, tok, WS, FENCE>>

\* The reply texts explored: every JSON value bare and fenced, and texts
\* that are no JSON after the fences are stripped.
ReplyTexts ==
    { <<Json(v)>> : v \in JsonValues } \cup { Fenced(Json(v)) : v \in JsonValues }
    \cup { << >>, <<WS>>, <<PROSE>>, Fenced(PROSE), <<PROSE, WS, Json(Dict(<< >>))>>,
           <<Json(None), FENCE, Json(None)>> }

\* What model.generate_content(prompt) followed by response.text does:
\* raises, or gives a text.
CALL_FAILED == [raised |-> TRUE, text |-> << >>]

Replied(text) == [raised |-> FALSE, text |-> text]

ModelOutcomes == {CALL_FAILED} \cup { Replied(t) : t \in ReplyTexts }

\* No reply received in this run.
NO_REPLY == None

\* str.strip()
RECURSIVE lstrip(_)
lstrip(s) == IF s # << >> /\ Head(s) = WS THEN lstrip(Tail(s)) ELSE s

RECURSIVE rstrip(_)
rstrip(s) ==
    IF s # << >> /\ s[Len(s)] = WS THEN rstrip(SubSeq(s, 1, Len(s) - 1)) ELSE s

strip(s) == rstrip(lstrip(s))

\* str.replace(old, "")
replace(s, old) == SelectSeq(s, LAMBDA tok : tok # old)

\* response.text.strip().replace(FENCE_JSON, "").replace(FENCE, "").strip()
cleaned_response(text) == strip(replace(replace(strip(text), FENCE_JSON), FENCE))

\* json.loads: the value, or the JSONDecodeError.  Whitespace around the one
\* value is accepted; anything else (no value, prose, extra data) is not.
json_loads(s) ==
    IF Len(strip(s)) = 1 /\ strip(s)[1].t = "json"
    THEN [ok |-> TRUE, value |-> strip(s)[1].v]
    ELSE [ok |-> FALSE, value |-> None]

\* A variant that answers a failure with a reply of its own making.
get_gemini_response_fallback(outcome) ==
    IF outcome.raised \/ ~json_loads(cleaned_response(outcome.text)).ok
    THEN [ret |-> Dict([answer |-> Str(<<"Sorry, something went wrong.">>)]),
          error |-> TRUE]
    ELSE [ret |-> json_loads(cleaned_response(outcome.text)).value, error |-> FALSE]

\* get_gemini_response: ret is the value returned, error whether st.error
\* was called.
get_gemini_response(outcome) ==
    IF outcome.raised \/ ~json_loads(cleaned_response(outcome.text)).ok
    THEN [ret |-> None, error |-> TRUE]
    ELSE [ret |-> json_loads(cleaned_response(outcome.text)).value, error |-> FALSE]

-----------------------------------------------------------------------------
(* create_prompt *)

\* sep.join(lines), on token sequences
RECURSIVE join(_, _)
join(sep, lines) ==
    IF lines = << >> THEN << >>
    ELSE IF Len(lines) = 1 THEN lines[1]
    ELSE lines[1] \o <<sep>> \o join(sep, Tail(lines))

\* f"{msg['role']}: {msg['content']}"
history_line(msg) == <<msg.role, ": ">> \o py_str(msg.content)

\* "\n".join([... for msg in history])
format_history(history) ==
    join("\n", [i \in 1..Len(history) |-> history_line(history[i])])

\* df.describe(include='all'): per column, the count of its values.
describe(df) == [i \in 1..Len(df.columns) |-> Len(df.rows)]

\* The summary of the dataframe: column names, number of rows, description.
data_summary(df) ==
    [column_names |-> join(", ", [i \in 1..Len(df.columns) |-> <<df.columns[i]>>]),
     n_rows       |-> Len(df.rows),
     description  |-> describe(df)]

\* The prompt, as the values that fill the three slots of the fixed template.
create_prompt(df, user_question, history) ==
    [type              |-> "prompt",
     data_summary      |-> data_summary(df),
     formatted_history |-> format_history(history),
     user_question     |-> py_str(user_question)]

-----------------------------------------------------------------------------
(* The file upload handler *)

\* A variant that reads the uploaded file in every run.
dataframe_always_read(df) == TRUE

\* `st.session_state.dataframe is None`, the guard of the read.
dataframe_is_None(df) == df = None

\* The handler: what it leaves in session state, the error it shows, and
\* whether it loaded a dataset.  A failed read leaves the transcript alone
\* and sets the dataframe to None.  (An exception of the preview that
\* follows a good read ends in the same except branch, with the transcript
\* just cleared: the same session state, as the transcript was empty.)
upload_handler(file, df, msgs) ==
    IF file # None /\ dataframe_is_None(df)
    THEN IF read_csv(file).ok
         THEN [dataframe |-> read_csv(file).df, messages |-> << >>,
               error |-> "none", loaded |-> TRUE]
         ELSE [dataframe |-> None, messages |-> msgs,
               error |-> "read", loaded |-> FALSE]
    ELSE [dataframe |-> df, messages |-> msgs, error |-> "none", loaded |-> FALSE]

\* The chat section, with its chat_input widget, is rendered only when a
\* dataframe is stored.
chat_input_shown(df) == df # None

-----------------------------------------------------------------------------
(* The chat input handler *)

user_message(prompt) == [role |-> "user", content |-> prompt]

assistant_message(answer, fig) ==
    [role |-> "assistant", content |-> answer, chart |-> fig]

\* A variant that starts the transcript anew with each question.
append_user_reset(msgs, prompt) == <<[role |-> "user", content |-> prompt]>>

\* A variant that shows the question without storing it.
append_user_forgotten(msgs, prompt) == msgs

\* st.session_state.messages.append({"role": "user", "content": prompt})
append_user(msgs, prompt) == Append(msgs, user_message(prompt))

\* st.session_state.messages.append({"role": "assistant", ...})
append_assistant(msgs, answer, fig) == Append(msgs, assistant_message(answer, fig))

\* The handler up to the call of the model: the user message is appended,
\* then the prompt is built from the transcript as it then stands.
chat_question(msgs, df, prompt) ==
    [messages    |-> append_user(msgs, prompt),
     full_prompt |-> create_prompt(df, prompt, append_user(msgs, prompt))]

\* The handle to the UI given to generated code.
ST == [type |-> "streamlit"]

\* exec(python_code, globals(), local_scope): the scope afterwards, and
\* whether an Exception was raised.  A binding made before the raise stays.
exec(python_code, local_scope) ==
    [raised      |-> Raises(python_code),
     local_scope |-> IF BindsFig(python_code)
                     THEN [k \in DOMAIN local_scope \cup {"fig"} |->
                              IF k = "fig" THEN Figure ELSE local_scope[k]]
                     ELSE local_scope]

\* local_scope.get('fig')
scope_get_fig(local_scope) ==
    IF "fig" \in DOMAIN local_scope THEN local_scope["fig"] ELSE None

\* `fig = None`, then the optional execution of python_code: the answer and
\* fig afterwards.  error is "exec" when the except branch ran, and
\* "uncaught" when `answer += <note>` itself raised (answer is no string),
\* which leaves the script run.
run_python_code(answer, python_code, df) ==
    IF ~Truthy(python_code)
    THEN [answer |-> answer, fig |-> None, executed |-> FALSE, error |-> "none"]
    ELSE IF ~exec(python_code, [df |-> df, st |-> ST]).raised
    THEN [answer |-> answer,
          fig |-> scope_get_fig(exec(python_code, [df |-> df, st |-> ST]).local_scope),
          executed |-> TRUE, error |-> "none"]
    ELSE IF answer.type = "str"
    THEN [answer |-> Str(answer.val \o ERROR_NOTE), fig |-> None,
          executed |-> TRUE, error |-> "exec"]
    ELSE [answer |-> answer, fig |-> None, executed |-> TRUE, error |-> "uncaught"]

\* The handler after get_gemini_response returned response_data: the
\* transcript afterwards.  `if response_data:` skips a falsy value; .get on
\* a value that is no dict raises AttributeError, which leaves the run.
interpret_reply(response_data, df, msgs) ==
    IF ~Truthy(response_data)
    THEN [messages |-> msgs, appended |-> FALSE, executed |-> FALSE, error |-> "none"]
    ELSE IF response_data.type # "dict"
    THEN [messages |-> msgs, appended |-> FALSE, executed |-> FALSE, error |-> "uncaught"]
    ELSE LET answer      == dict_get(response_data, "answer", Str(DEFAULT_ANSWER))
             python_code == dict_get(response_data, "python_code", None)
             r           == run_python_code(answer, python_code, df)
         IN  IF r.error = "uncaught"
             THEN [messages |-> msgs, appended |-> FALSE,
                   executed |-> r.executed, error |-> r.error]
             ELSE [messages |-> append_assistant(msgs, r.answer, r.fig),
                   appended |-> TRUE, executed |-> r.executed, error |-> r.error]

-----------------------------------------------------------------------------
(* The session *)

VARIABLES
    messages,       \* st.session_state.messages
    dataframe,      \* st.session_state.dataframe
    uploaded_file,  \* the file held by the file_uploader widget, or None
    pc,             \* "idle" between script runs, "awaiting" in the model call
    prompt,         \* the question of the run in progress, or None
    full_prompt,    \* the prompt sent to the model in this run, or None
    reply,          \* what the model call of this run did, or NO_REPLY
    ui,             \* what this run showed: the error banner, whether exec ran
    n_answered,     \* exchanges of this transcript that appended an assistant message
    n_unanswered    \* exchanges of this transcript that ended without one

vars == <<messages, dataframe, uploaded_file, pc, prompt, full_prompt, reply, ui,
          n_answered, n_unanswered>>

Questions == {Str(<<"q1">>), Str(<<"q2">>)}

UI(error, executed) == [error |-> error, executed |-> executed]

Init ==
    /\ messages = << >>
    /\ dataframe = None
    /\ uploaded_file = None
    /\ pc = "idle"
    /\ prompt = None
    /\ full_prompt = None
    /\ reply = NO_REPLY
    /\ ui = UI("none", FALSE)
    /\ n_answered = 0
    /\ n_unanswered = 0

\* The user puts a file into the uploader; the script runs with no question.
Upload(f) ==
    /\ pc = "idle"
    /\ uploaded_file' = UploadedFile(f)
    /\ LET h == upload_handler(UploadedFile(f), dataframe, messages)
       IN  /\ dataframe' = h.dataframe
           /\ messages' = h.messages
           /\ ui' = UI(h.error, FALSE)
           /\ n_answered' = IF h.loaded THEN 0 ELSE n_answered
           /\ n_unanswered' = IF h.loaded THEN 0 ELSE n_unanswered
    /\ prompt' = None /\ full_prompt' = None /\ reply' = NO_REPLY
    /\ UNCHANGED pc

\* The user removes the file from the uploader; the script runs with
\* uploaded_file None and no question.
RemoveFile ==
    /\ pc = "idle"
    /\ uploaded_file # None
    /\ uploaded_file' = None
    /\ LET h == upload_handler(None, dataframe, messages)
       IN  /\ dataframe' = h.dataframe
           /\ messages' = h.messages
           /\ ui' = UI(h.error, FALSE)
    /\ prompt' = None /\ full_prompt' = None /\ reply' = NO_REPLY
    /\ UNCHANGED <<pc, n_answered, n_unanswered>>

\* The user submits a question; the script runs up to the model call.
Ask(q) ==
    /\ pc = "idle"
    /\ chat_input_shown(dataframe)
    /\ Len(messages) + 2 <= MaxMsgs
    /\ LET h == upload_handler(uploaded_file, dataframe, messages)
       IN  /\ dataframe' = h.dataframe
           /\ n_answered' = IF h.loaded THEN 0 ELSE n_answered
           /\ n_unanswered' = IF h.loaded THEN 0 ELSE n_unanswered
           /\ IF chat_input_shown(h.dataframe)
              THEN /\ messages' = chat_question(h.messages, h.dataframe, q).messages
                   /\ full_prompt' = chat_question(h.messages, h.dataframe, q).full_prompt
                   /\ prompt' = q
                   /\ pc' = "awaiting"
                   /\ ui' = UI("none", FALSE)
              ELSE /\ messages' = h.messages
                   /\ full_prompt' = None
                   /\ prompt' = None
                   /\ pc' = "idle"
                   /\ ui' = UI(h.error, FALSE)
    /\ reply' = NO_REPLY
    /\ UNCHANGED uploaded_file

\* The model call ends with `outcome`; the script runs to its end.
Respond(outcome) ==
    /\ pc = "awaiting"
    /\ reply' = outcome
    /\ LET g == get_gemini_response(outcome)
           i == interpret_reply(g.ret, dataframe, messages)
       IN  /\ messages' = i.messages
           /\ ui' = UI(IF g.error THEN "gemini" ELSE i.error, i.executed)
           /\ n_answered' = IF i.appended THEN n_answered + 1 ELSE n_answered
           /\ n_unanswered' = IF i.appended THEN n_unanswered ELSE n_unanswered + 1
    /\ pc' = "idle"
    /\ UNCHANGED <<dataframe, uploaded_file, prompt, full_prompt>>

Next ==
    \/ \E f \in Files : Upload(f)
    \/ RemoveFile
    \/ \E q \in Questions : Ask(q)
    \/ \E outcome \in ModelOutcomes : Respond(outcome)

Spec == Init /\ [][Next]_vars

-----------------------------------------------------------------------------
(* Vocabulary of the properties *)

IsPrefix(s, t) == Len(s) <= Len(t) /\ SubSeq(t, 1, Len(s)) = s

Last(s) == s[Len(s)]

\* The step in which the model call of a chat exchange returns.
ReplyStep == pc = "awaiting" /\ pc' = "idle"

\* The model call failed, or its reply is no JSON once the fences are stripped.
ReplyFailed(outcome) ==
    outcome.raised \/ ~json_loads(cleaned_response(outcome.text)).ok

\* The JSON value of a reply that parsed.
ParsedValue(outcome) == json_loads(cleaned_response(outcome.text)).value

\* The reply's "answer", or the default text when the key is missing.
AnswerOf(v) == dict_get(v, "answer", Str(DEFAULT_ANSWER))

\* The reply's "python_code" is absent, null or empty.
LacksCode(v) == ~Truthy(dict_get(v, "python_code", None))

\* user, assistant, user, assistant, ...
Alternates(msgs) ==
    \A i \in 1..Len(msgs) :
        msgs[i].role = IF i % 2 = 1 THEN "user" ELSE "assistant"

Awaited == IF pc = "awaiting" THEN 1 ELSE 0

-----------------------------------------------------------------------------
(* The claims *)

\* C1: after an upload of a readable CSV is processed the transcript is
\* empty, whatever the session state was before (dataset absent or loaded,
\* transcript empty or not).
C1_UploadClearsTranscript ==
    [][ ( /\ uploaded_file' # uploaded_file
          /\ uploaded_file' # None
          /\ read_csv(uploaded_file').ok )
        => messages' = << >> ]_vars

\* C2: the stored dataset is the one parsed from the most recently uploaded
\* file: whenever the uploader holds a readable file, the dataframe is what
\* read_csv gives for that file.
C2_DatasetIsLatestUpload ==
    (uploaded_file # None /\ read_csv(uploaded_file).ok)
        => dataframe = read_csv(uploaded_file).df

\* C3, as claimed: the transcript length is twice the number of completed
\* exchanges, plus one while a reply is awaited; once an interaction has
\* finished the transcript alternates user, assistant and has even length.
C3_LengthTwiceCompleted ==
    /\ pc = "awaiting" => Len(messages) = 2 * n_answered + 1
    /\ pc = "idle" => Len(messages) = 2 * n_answered /\ Alternates(messages)

\* C3, amended: the transcript length is twice the number of exchanges that
\* appended an assistant message, plus one for every finished exchange that
\* appended none, plus one while a reply is awaited; every assistant message
\* directly follows a user message; and as long as no exchange has ended
\* without an assistant message the transcript alternates.
C3_LengthCountsUnanswered ==
    /\ Len(messages) = 2 * n_answered + n_unanswered + Awaited
    /\ \A i \in 1..Len(messages) :
           messages[i].role = "assistant" => i > 1 /\ messages[i - 1].role = "user"
    /\ Cardinality({i \in 1..Len(messages) : messages[i].role = "assistant"}) = n_answered
    /\ n_unanswered = 0 => Alternates(messages)

\* C3, the case: an interaction has finished, one exchange was answered and
\* one was not, and two user messages stand next to each other.
C3_Witness ==
    /\ pc = "idle" /\ n_answered >= 1 /\ n_unanswered >= 1
    /\ \E i \in 1..Len(messages) - 1 :
           messages[i].role = "user" /\ messages[i + 1].role = "user"

\* C4: a model call that fails, or a reply that is no valid JSON after the
\* fences are stripped, shows the error of get_gemini_response and appends no
\* assistant message; the run ends, the session state is kept, and the chat
\* input is shown again, so a later question can be asked.
C4_FailedReplyNoAssistant ==
    [][ (ReplyStep /\ ReplyFailed(reply'))
        => /\ ui'.error = "gemini"
           /\ messages' = messages
           /\ dataframe' = dataframe
           /\ uploaded_file' = uploaded_file
           /\ chat_input_shown(dataframe') ]_vars

\* C4, the case: a reply that failed has been handled, the error is shown and
\* the question stands last in the transcript, unanswered.
C4_Witness ==
    /\ pc = "idle" /\ reply # NO_REPLY /\ ReplyFailed(reply)
    /\ ui.error = "gemini"
    /\ messages # << >> /\ Last(messages).role = "user"

\* C5: every reply that parses as a JSON object whose "answer" is a string
\* or missing, the empty object included, is folded into exactly one new
\* assistant message whose content is that answer or the default text (with
\* the error note of C6 when generated code failed).
C5_ParsedReplyOneAssistant ==
    [][ ( /\ ReplyStep /\ ~ReplyFailed(reply')
          /\ ParsedValue(reply').type = "dict"
          /\ AnswerOf(ParsedValue(reply')).type = "str" )
        => /\ Len(messages') = Len(messages) + 1
           /\ IsPrefix(messages, messages')
           /\ Last(messages').role = "assistant"
           /\ Last(messages').content \in
                 { AnswerOf(ParsedValue(reply')),
                   Str(AnswerOf(ParsedValue(reply')).val \o ERROR_NOTE) } ]_vars

\* C6: a reply whose python_code raises during execution still produces an
\* assistant message: its text is the reply's answer with the error note
\* appended and its chart is absent, whether or not the code bound fig first.
C6_RaisingCodeStillAnswers ==
    [][ ( /\ ReplyStep /\ ~ReplyFailed(reply')
          /\ ParsedValue(reply').type = "dict"
          /\ ~LacksCode(ParsedValue(reply'))
          /\ Raises(dict_get(ParsedValue(reply'), "python_code", None)) )
        => /\ Len(messages') = Len(messages) + 1
           /\ IsPrefix(messages, messages')
           /\ Last(messages').role = "assistant"
           /\ Last(messages').chart = None
           /\ Last(messages').content =
                 Str(py_str(AnswerOf(ParsedValue(reply'))) \o ERROR_NOTE)
           /\ ui'.error = "exec" ]_vars

\* C7: a reply lacking python_code (key absent, null or empty) adds exactly
\* one assistant message, with the reply's answer unmodified and no chart, and
\* no generated code is executed.
C7_NoCodeOneMessageNoChart ==
    [][ ( /\ ReplyStep /\ ~ReplyFailed(reply')
          /\ ParsedValue(reply').type = "dict"
          /\ LacksCode(ParsedValue(reply')) )
        => /\ messages' = Append(messages,
                                 [role    |-> "assistant",
                                  content |-> AnswerOf(ParsedValue(reply')),
                                  chart   |-> None])
           /\ ~ui'.executed ]_vars

\* C8: the transcript is append-only: every step of a chat interaction keeps
\* the stored messages, in order, as a prefix of the transcript, and a step
\* that does not keep them is a dataset load.
C8_AppendOnly ==
    [][ /\ (pc = "awaiting" \/ pc' = "awaiting") => IsPrefix(messages, messages')
        /\ ~IsPrefix(messages, messages')
               => dataframe' # dataframe /\ dataframe' # None ]_vars

\* C8, the case: exchanges of several kinds have been handled (one left
\* unanswered, the last with failing generated code) and the transcript
\* holds all their messages.
C8_Witness ==
    /\ pc = "idle" /\ Len(messages) >= 3
    /\ n_unanswered >= 1 /\ ui.error = "exec"

\* C9: the history rendered in the prompt is the transcript as it stood
\* before the question was asked, and the question is the latest question.
C9_HistoryIsPriorTranscript ==
    pc = "awaiting"
        => /\ full_prompt.formatted_history =
                  format_history(SubSeq(messages, 1, Len(messages) - 1))
           /\ full_prompt.user_question = py_str(prompt)

\* C10: while no dataset is loaded the transcript is empty, no question is
\* in progress, no prompt has been sent, no reply received and no generated
\* code executed in the run; and a failed file read leaves the dataset absent
\* and the transcript empty.
C10_NoDatasetNoChat ==
    /\ dataframe = None
           => /\ messages = << >>
              /\ pc = "idle"
              /\ prompt = None /\ full_prompt = None /\ reply = NO_REPLY
              /\ ~ui.executed
    /\ ui.error = "read" => dataframe = None /\ messages = << >>

\* C10, the case: an unreadable file sits in the uploader, its read failed,
\* and no dataset is loaded.
C10_Witness ==
    /\ uploaded_file = UploadedFile(EMPTY_CSV)
    /\ ui.error = "read"
    /\ dataframe = None

====
